---- MODULE Spec2Model ----
(***************************************************************************)
(* Model of the RAW -> JPEG conversion service of src/app.py: the two      *)
(* conversion endpoints (generate_thumbnail, generate_high_quality_jpeg),  *)
(* the streaming downloader (download_raw_file), the uploader              *)
(* (upload_to_convex), the per-request temporary directory and the         *)
(* exception-to-response translation.                                      *)
(*                                                                         *)
(* The resize arithmetic of the handlers is Python float arithmetic        *)
(* (int / int, int * float, int(float)); it is modelled bit for bit as     *)
(* IEEE-754 binary64 with round-to-nearest-even.                           *)
(***************************************************************************)
EXTENDS Integers, Sequences, FiniteSets, TLC

(***************************************************************************)
(* IEEE-754 binary64 arithmetic on positive values.  The 53-bit            *)
(* significand of a float is held in four limbs, l3 (the top 11 bits, its  *)
(* leading bit always 1: every value here is normal) and l2, l1, l0        *)
(* (14 bits each); the value is                                            *)
(*     (l3 * 2^42 + l2 * 2^28 + l1 * 2^14 + l0) * 2^e.                     *)
(* Integer operands are below 2^14, so no product leaves 32 bits.          *)
(***************************************************************************)
RECURSIVE Pow2(_)
Pow2(n) == IF n = 0 THEN 1 ELSE 2 * Pow2(n - 1)

\* Bits of a low limb, of the top limb and of the significand.
LimbBits == 14

TopBits == 11

MantBits == TopBits + 3 * LimbBits

Limb == Pow2(LimbBits)

\* The number of bits of n > 0.
RECURSIVE BitLen(_)
BitLen(n) == IF n = 0 THEN 0 ELSE 1 + BitLen(n \div 2)

\* x, rounded up by one unit in the last place when up holds (a carry out
\* of the top limb renormalises).
RoundFloat(x, up) ==
    IF ~up THEN x
    ELSE IF x.l0 + 1 < Limb THEN [x EXCEPT !.l0 = @ + 1]
    ELSE IF x.l1 + 1 < Limb THEN [x EXCEPT !.l0 = 0, !.l1 = @ + 1]
    ELSE IF x.l2 + 1 < Limb THEN [x EXCEPT !.l0 = 0, !.l1 = 0, !.l2 = @ + 1]
    ELSE IF x.l3 + 1 < Pow2(TopBits)
    THEN [x EXCEPT !.l0 = 0, !.l1 = 0, !.l2 = 0, !.l3 = @ + 1]
    ELSE [l3 |-> Pow2(TopBits - 1), l2 |-> 0, l1 |-> 0, l0 |-> 0, e |-> x.e + 1]

\* The s with 2^s <= a / b < 2^(s+1), for integers a, b > 0.
RECURSIVE ExpUp(_, _, _)
ExpUp(a, b, s) == IF 2 * b * Pow2(s) <= a THEN ExpUp(a, b, s + 1) ELSE s

RECURSIVE ExpDown(_, _, _)
ExpDown(a, b, k) == IF a * Pow2(k) >= b THEN k ELSE ExpDown(a, b, k + 1)

FloorLog2(a, b) == IF a >= b THEN ExpUp(a, b, 0) ELSE 0 - ExpDown(a, b, 1)

\* Python's a / b on ints a, b > 0: the correctly rounded quotient, by long
\* division limb by limb (n / d is in [1, 2)), then rounding on the
\* remainder, ties to even.
TrueDiv(a, b) ==
    LET s  == FloorLog2(a, b)
        n  == IF s >= 0 THEN a ELSE a * Pow2(0 - s)
        d  == IF s >= 0 THEN b * Pow2(s) ELSE b
        t3 == n * Pow2(TopBits - 1)
        t2 == (t3 % d) * Limb
        t1 == (t2 % d) * Limb
        t0 == (t1 % d) * Limb
        r  == t0 % d
        x  == [l3 |-> t3 \div d, l2 |-> t2 \div d, l1 |-> t1 \div d,
               l0 |-> t0 \div d, e |-> s - (MantBits - 1)]
    IN  RoundFloat(x, 2 * r > d \/ (2 * r = d /\ x.l0 % 2 = 1))

\* Python's x < y on floats.
FloatLess(x, y) ==
    \/ x.e < y.e
    \/ /\ x.e = y.e
       /\ \/ x.l3 < y.l3
          \/ x.l3 = y.l3 /\ x.l2 < y.l2
          \/ x.l3 = y.l3 /\ x.l2 = y.l2 /\ x.l1 < y.l1
          \/ x.l3 = y.l3 /\ x.l2 = y.l2 /\ x.l1 = y.l1 /\ x.l0 < y.l0

\* Python's min(x, y): the first of the smallest.
FloatMin(x, y) == IF FloatLess(y, x) THEN y ELSE x

\* Python's w * x for an int w > 0 and a float x: the exact product (limbs
\* q0, q1, q2 and the top part top), shifted right by the drop bits it has
\* beyond 53 and rounded once on the bits dropped, ties to even.
MulInt(w, x) ==
    LET p0   == w * x.l0
        p1   == w * x.l1 + p0 \div Limb
        p2   == w * x.l2 + p1 \div Limb
        top  == w * x.l3 + p2 \div Limb
        q0   == p0 % Limb
        q1   == p1 % Limb
        q2   == p2 % Limb
        drop == BitLen(top) - TopBits
        dd   == Pow2(drop)
        up   == Limb \div dd
        lost == q0 % dd
        y    == [l3 |-> top \div dd,
                 l2 |-> (top % dd) * up + q2 \div dd,
                 l1 |-> (q2 % dd) * up + q1 \div dd,
                 l0 |-> (q1 % dd) * up + q0 \div dd,
                 e  |-> x.e + drop]
    IN  RoundFloat(y, /\ drop > 0
                      /\ 2 * lost >= dd
                      /\ (2 * lost > dd \/ y.l0 % 2 = 1))

\* Python's int(x) on a float x > 0 below 2^25: truncation to the n bits
\* before the binary point.
Trunc(x) ==
    LET n == MantBits + x.e
    IN  IF n <= 0 THEN 0
        ELSE IF n <= TopBits THEN x.l3 \div Pow2(TopBits - n)
        ELSE x.l3 * Pow2(n - TopBits) + x.l2 \div Pow2(TopBits + LimbBits - n)

(***************************************************************************)
(* The resize computation of both handlers.                                *)
(***************************************************************************)
FloatMax(x, y) == IF FloatLess(x, y) THEN y ELSE x

\* ScaleRatio with the larger of the two ratios (scale to fill, not to fit).
ScaleRatioMax(w, h, tw, th) == FloatMax(TrueDiv(tw, w), TrueDiv(th, h))

ScaleRatio(w, h, tw, th) == FloatMin(TrueDiv(tw, w), TrueDiv(th, h))

NewSize(w, h, tw, th) ==
    LET scale_ratio == ScaleRatio(w, h, tw, th)
    IN  <<Trunc(MulInt(w, scale_ratio)), Trunc(MulInt(h, scale_ratio))>>

(***************************************************************************)
(* Program constants and the bounds of the model.                          *)
(***************************************************************************)
chunk_size == 8192

MaxFileSize == 100 * 1024 * 1024

\* Requests the server may be handling at once.
NumRequests == 2

\* Full chunks a remote server may send beyond the 100 MiB cap.
ExtraChunks == 2

\* The length of a chunk shorter than chunk_size.
ShortChunk == 1

\* Lengths of the chunks r.iter_content(chunk_size=8192) yields.
ChunkLens == {chunk_size, ShortChunk}

\* Chunks shorter than chunk_size in one download stream.
MaxShortChunks == 1

Requests == 1..NumRequests

\* Names tempfile may give a temporary directory: one per request at least.
DirNames == 1..NumRequests

Endpoints == {"thumbnail", "high_quality"}

\* target_width, target_height of each endpoint.
Target(endpoint) ==
    IF endpoint = "thumbnail" THEN <<400, 300>> ELSE <<1920, 1440>>

\* The name of the JPEG each endpoint writes in its temporary directory.
JpegName(endpoint) ==
    IF endpoint = "thumbnail" THEN "thumbnail.jpg" ELSE "high_quality.jpg"

RawName == "input.dng"

TypeName(endpoint) == endpoint

\* data.get(key) of a parsed JSON object: None when the key is absent.
NoneVal == "None"

\* Falsy with the empty string taken for a value (an `is None` test).
FalsyNoneOnly(v) == v = NoneVal

\* Python truthiness of a str-or-None value (the operand of `not`).
Falsy(v) == v \in {NoneVal, ""}

(***************************************************************************)
(* What the environment may send: request bodies, the download server's    *)
(* answers, the decoder's results and the upload endpoint's answers.       *)
(***************************************************************************)
UrlVals == {NoneVal, "", "http://host/path"}

Bodies ==
    [kind : {"object"}, rawFileUrl : UrlVals, uploadUrl : UrlVals]
    \cup [kind : {"null", "array"}, rawFileUrl : {NoneVal}, uploadUrl : {NoneVal}]

\* Answers of the download server: a status code, or no answer at all
\* (connection failure, timeout, unusable URL).
GetOutcomes ==
    [answered : {TRUE}, status : {200, 300, 404, 500}]
    \cup [answered : {FALSE}, status : {0}]

\* Sizes (width, height) the decoder may produce.
Dims ==
    { <<4000, 3000>>, <<6000, 4000>>, <<539, 300>>, <<562, 562>>,
      <<400, 300>>, <<1920, 1440>>, <<2148, 1611>>, <<2162, 1621>>,
      <<200, 150>> }

\* Answers of the upload endpoint: status, response text, the kind of its
\* body as JSON and the storageId member of that body.
UploadAnswers ==
    [status : {200}, text : {"{...}"}, body : {"object"},
     storageId : {NoneVal, "", "kg2abc"}]
    \cup [status : {200}, text : {"[]", "<html>"}, body : {"array", "not_json"},
          storageId : {NoneVal}]
    \cup [status : {201, 500}, text : {"upstream text"}, body : {"object"},
          storageId : {"kg2abc"}]

UploadOutcomes ==
    [answered : {TRUE}, res : UploadAnswers]
    \cup [answered : {FALSE},
          res : [status : {0}, text : {""}, body : {""}, storageId : {NoneVal}]]

\* The environment of one request alone (whose directory name is then
\* immaterial), and a smaller one for requests running concurrently.
Env ==
    [bodies |-> Bodies, names |-> {1}, gets |-> GetOutcomes,
     limit |-> MaxFileSize + ExtraChunks * chunk_size,
     dims |-> Dims, uploads |-> UploadOutcomes]

ConcEnv ==
    [bodies |-> {b \in Bodies : b.kind = "object" /\ b.rawFileUrl = "http://host/path"
                                  /\ b.uploadUrl = "http://host/path"},
     names |-> DirNames,
     gets |-> {g \in GetOutcomes : g.status = 200},
     limit |-> ShortChunk,
     dims |-> {<<4000, 3000>>},
     uploads |-> {u \in UploadOutcomes : u.res.status = 200 /\ u.res.storageId = "kg2abc"}]

(***************************************************************************)
(* Exceptions and responses.                                               *)
(***************************************************************************)
NoDetails == [msg |-> "", status |-> 0, text |-> ""]

NoExc == [type |-> "none", details |-> NoDetails]

Exc(type, msg) == [type |-> type, details |-> [msg |-> msg, status |-> 0, text |-> ""]]

\* Exception(f"Upload failed: {upload_res.status_code} - {upload_res.text}")
UploadFailedExc(status, text) ==
    [type |-> "Exception",
     details |-> [msg |-> "Upload failed", status |-> status, text |-> text]]

\* IsRequestException of a handler with the generic except clause alone.
IsRequestExceptionNever(type) == FALSE

\* The exception classes that derive from requests.RequestException.
RequestExceptions == {"HTTPError", "ConnectionError", "JSONDecodeError"}

IsRequestException(type) == type \in RequestExceptions

NetworkLabel == "Network error during processing"

GenericLabel == "RAW to JPEG conversion failed"

NoResponse ==
    [status |-> 0, json |-> FALSE, error |-> "", details |-> NoDetails,
     success |-> FALSE, storageId |-> "", dimensions |-> "", type |-> ""]

\* jsonify({"error": "Missing rawFileUrl or uploadUrl"}), 400
MissingFieldResponse ==
    [NoResponse EXCEPT !.status = 400, !.json = TRUE,
                       !.error = "Missing rawFileUrl or uploadUrl"]

\* An exception that leaves the view function: the framework's own 500
\* page, which is not one of the handler's JSON bodies.
UnhandledResponse == [NoResponse EXCEPT !.status = 500]

\* The two except clauses of a handler.
ErrorResponse(e) ==
    [NoResponse EXCEPT !.status = 500, !.json = TRUE,
                       !.error = IF IsRequestException(e.type)
                                 THEN NetworkLabel ELSE GenericLabel,
                       !.details = e.details]

\* f"{new_width}x{new_height}"
DimString(size) == ToString(size[1]) \o "x" \o ToString(size[2])

SuccessResponse(endpoint, sid, size) ==
    [NoResponse EXCEPT !.status = 200, !.json = TRUE, !.success = TRUE,
                       !.storageId = sid, !.dimensions = DimString(size),
                       !.type = TypeName(endpoint)]

(***************************************************************************)
(* State.  Every variable but dirs and files is per request.               *)
(***************************************************************************)
VARIABLES
    pc,         \* where the request's handler stands
    req,        \* the request: endpoint and parsed JSON body
    tmpdir,     \* tmpdir of the handler (0: none)
    dirs,       \* the file system: directory name -> request that made it (0: no such directory)
    files,      \* the file system: files [dir, name, writer]
    file_size,  \* file_size of download_raw_file
    written,    \* bytes download_raw_file has written to raw_path
    shorts,     \* short chunks the download stream has delivered
    nGet,       \* download GETs issued
    get_status, \* r.status_code of the download (0: no answer)
    nPost,      \* upload POSTs issued
    exc,        \* the exception propagating, or NoExc
    img,        \* img.size after decoding (<<0, 0>>: none)
    new_size,   \* <<new_width, new_height>> (<<0, 0>>: none)
    storage_id, \* storage_id returned by upload_to_convex
    upload_res, \* upload_res of upload_to_convex
    reads,      \* the writers of the files the request has read
    stages,     \* the pipeline stages the request has attempted, in order
    response    \* the response sent, or NoResponse

vars == <<pc, req, tmpdir, dirs, files, file_size, written, shorts, nGet,
          get_status, nPost,
          exc, img, new_size, storage_id, upload_res, reads, stages, response>>

NoBody == [kind |-> "null", rawFileUrl |-> NoneVal, uploadUrl |-> NoneVal]

NoReq == [endpoint |-> "", body |-> NoBody]

NoUploadRes == [status |-> 0, text |-> "", body |-> "", storageId |-> NoneVal]

Init ==
    /\ pc = [r \in Requests |-> "idle"]
    /\ req = [r \in Requests |-> NoReq]
    /\ tmpdir = [r \in Requests |-> 0]
    /\ dirs = [d \in DirNames |-> 0]
    /\ files = {}
    /\ file_size = [r \in Requests |-> 0]
    /\ written = [r \in Requests |-> 0]
    /\ shorts = [r \in Requests |-> 0]
    /\ nGet = [r \in Requests |-> 0]
    /\ get_status = [r \in Requests |-> 0]
    /\ nPost = [r \in Requests |-> 0]
    /\ exc = [r \in Requests |-> NoExc]
    /\ img = [r \in Requests |-> <<0, 0>>]
    /\ new_size = [r \in Requests |-> <<0, 0>>]
    /\ storage_id = [r \in Requests |-> NoneVal]
    /\ upload_res = [r \in Requests |-> NoUploadRes]
    /\ reads = [r \in Requests |-> {}]
    /\ stages = [r \in Requests |-> <<>>]
    /\ response = [r \in Requests |-> NoResponse]

(***************************************************************************)
(* Paths and the file system.                                              *)
(***************************************************************************)
\* raw_path = os.path.join(tmpdir, "input.dng")
RawPath(r) == [dir |-> tmpdir[r], name |-> RawName]

\* jpeg_path = os.path.join(tmpdir, "thumbnail.jpg" / "high_quality.jpg")
JpegPath(r) == [dir |-> tmpdir[r], name |-> JpegName(req[r].endpoint)]

FilesAt(path) == {f \in files : f.dir = path.dir /\ f.name = path.name}

\* open(path, "wb") / save(path): the file at path is now r's.
WriteFile(path, r) ==
    (files \ FilesAt(path)) \cup {[dir |-> path.dir, name |-> path.name, writer |-> r]}

\* FreshDirs of a handler that works in one fixed directory.
FreshDirsFixed == {1}

\* The names tempfile.TemporaryDirectory() may pick: one no directory has.
FreshDirs == {d \in DirNames : dirs[d] = 0}

(***************************************************************************)
(* Control flow of a handler.                                              *)
(***************************************************************************)
\* Raise of a handler whose directory is removed on the success path only.
RaiseNoCleanup(r, e) ==
    /\ exc' = [exc EXCEPT ![r] = e]
    /\ pc' = [pc EXCEPT ![r] = "respond"]

\* Raise of a handler that swallows the exception and tries the stage again.
RaiseRetry(r, e) == UNCHANGED <<exc, pc>>

\* An exception raised inside `with tempfile.TemporaryDirectory()`: the
\* with block is left through the directory's cleanup, then an except
\* clause answers.
Raise(r, e) ==
    /\ exc' = [exc EXCEPT ![r] = e]
    /\ pc' = [pc EXCEPT ![r] = "cleanup"]

\* TooLarge of a downloader with no size check.
TooLargeNever(size) == FALSE

\* if file_size > 100 * 1024 * 1024
TooLarge(size) == size > MaxFileSize

\* UploadRejected of an uploader that rejects error statuses only.
UploadRejectedOnError(status) == status >= 400

\* if upload_res.status_code != 200
UploadRejected(status) == status # 200

\* r.raise_for_status(): an HTTPError for a 4xx or 5xx status.
RaisesForStatus(status) == status >= 400 /\ status < 600

\* What upload_res.json() raises on a body that is not JSON: a
\* RequestException subclass or a plain ValueError, by library version.
JsonErrorClasses == {"JSONDecodeError", "ValueError"}

Push(r, stage) == [stages EXCEPT ![r] = Append(@, stage)]

(***************************************************************************)
(* The steps of a request.                                                 *)
(***************************************************************************)
\* A POST to one of the two conversion endpoints arrives.
Receive(r, endpoint, body) ==
    /\ pc[r] = "idle"
    /\ req' = [req EXCEPT ![r] = [endpoint |-> endpoint, body |-> body]]
    /\ pc' = [pc EXCEPT ![r] = "validate"]
    /\ UNCHANGED <<get_status, tmpdir, dirs, files, file_size, written, shorts, nGet, nPost,
                   exc, img, new_size, storage_id, upload_res, reads, stages,
                   response>>

\* data = request.get_json(); data.get(...) twice; the missing-field check.
\* All of it stands before the try: data.get on a body that is not an
\* object raises AttributeError, which no except clause of the handler sees.
Validate(r) ==
    /\ pc[r] = "validate"
    /\ LET body == req[r].body
       IN  IF body.kind # "object"
           THEN /\ exc' = [exc EXCEPT ![r] = Exc("AttributeError", "no attribute 'get'")]
                /\ response' = [response EXCEPT ![r] = UnhandledResponse]
                /\ pc' = [pc EXCEPT ![r] = "done"]
           ELSE IF Falsy(body.rawFileUrl) \/ Falsy(body.uploadUrl)
           THEN /\ response' = [response EXCEPT ![r] = MissingFieldResponse]
                /\ pc' = [pc EXCEPT ![r] = "done"]
                /\ UNCHANGED exc
           ELSE /\ pc' = [pc EXCEPT ![r] = "mkdtemp"]
                /\ UNCHANGED <<exc, response>>
    /\ UNCHANGED <<get_status, req, tmpdir, dirs, files, file_size, written, shorts, nGet,
                   nPost, img, new_size, storage_id, upload_res, reads, stages>>

\* with tempfile.TemporaryDirectory() as tmpdir
MakeTmpDir(r, d) ==
    /\ pc[r] = "mkdtemp"
    /\ d \in FreshDirs
    /\ tmpdir' = [tmpdir EXCEPT ![r] = d]
    /\ dirs' = [dirs EXCEPT ![d] = r]
    /\ pc' = [pc EXCEPT ![r] = "get"]
    /\ UNCHANGED <<get_status, req, files, file_size, written, shorts, nGet, nPost, exc, img,
                   new_size, storage_id, upload_res, reads, stages, response>>

\* download_raw_file up to the loop: the GET, raise_for_status, file_size = 0
\* and open(raw_path, "wb").
DownloadGet(r, g) ==
    /\ pc[r] = "get"
    /\ nGet' = [nGet EXCEPT ![r] = @ + 1]
    /\ get_status' = [get_status EXCEPT ![r] = g.status]
    /\ stages' = Push(r, "download")
    /\ IF ~g.answered
       THEN Raise(r, Exc("ConnectionError", "connection failed")) /\ UNCHANGED files
       ELSE IF RaisesForStatus(g.status)
       THEN Raise(r, Exc("HTTPError", "error status for url")) /\ UNCHANGED files
       ELSE /\ files' = WriteFile(RawPath(r), r)
            /\ pc' = [pc EXCEPT ![r] = "stream"]
            /\ UNCHANGED exc
    /\ UNCHANGED <<req, tmpdir, dirs, file_size, written, shorts, nPost, img,
                   new_size, storage_id, upload_res, reads, response>>

\* One iteration of the loop over r.iter_content: write the chunk, count
\* it, then check the cap.  limit bounds the bytes the server sends.
DownloadChunk(r, len, limit) ==
    /\ pc[r] = "stream"
    /\ file_size[r] + len <= limit
    /\ len < chunk_size => shorts[r] < MaxShortChunks
    /\ shorts' = [shorts EXCEPT ![r] = IF len < chunk_size THEN @ + 1 ELSE @]
    /\ written' = [written EXCEPT ![r] = @ + len]
    /\ file_size' = [file_size EXCEPT ![r] = @ + len]
    /\ IF TooLarge(file_size[r] + len)
       THEN Raise(r, Exc("Exception", "File too large (>100MB)"))
       ELSE UNCHANGED <<pc, exc>>
    /\ UNCHANGED <<get_status, req, tmpdir, dirs, files, nGet, nPost, img, new_size,
                   storage_id, upload_res, reads, stages, response>>

\* The stream ends: download_raw_file returns.  The handler drops the value
\* returned, and the function's locals go with its frame.
DownloadEnd(r) ==
    /\ pc[r] = "stream"
    /\ pc' = [pc EXCEPT ![r] = "decode"]
    /\ file_size' = [file_size EXCEPT ![r] = 0]
    /\ written' = [written EXCEPT ![r] = 0]
    /\ shorts' = [shorts EXCEPT ![r] = 0]
    /\ UNCHANGED <<get_status, req, tmpdir, dirs, files, nGet, nPost, exc, img, new_size,
                   storage_id, upload_res, reads, stages, response>>

\* The connection breaks while the body is read.
DownloadBroken(r) ==
    /\ pc[r] = "stream"
    /\ Raise(r, Exc("ConnectionError", "connection broken"))
    /\ UNCHANGED <<get_status, req, tmpdir, dirs, files, file_size, written, shorts, nGet,
                   nPost, img, new_size, storage_id, upload_res, reads, stages,
                   response>>

\* rawpy.imread(raw_path), raw.postprocess(...), Image.fromarray(rgb): the
\* decoder yields an image of the given size.
Decode(r, size) ==
    /\ pc[r] = "decode"
    /\ stages' = Push(r, "decode")
    /\ reads' = [reads EXCEPT ![r] = @ \cup {f.writer : f \in FilesAt(RawPath(r))}]
    /\ IF FilesAt(RawPath(r)) = {}
       THEN Raise(r, Exc("LibRawIOError", "cannot open file")) /\ UNCHANGED img
       ELSE /\ img' = [img EXCEPT ![r] = size]
            /\ pc' = [pc EXCEPT ![r] = "resize"]
            /\ UNCHANGED exc
    /\ UNCHANGED <<get_status, req, tmpdir, dirs, files, file_size, written, shorts, nGet,
                   nPost, new_size, storage_id, upload_res, response>>

\* The decoder rejects the file (corrupt or unsupported RAW).
DecodeFails(r) ==
    /\ pc[r] = "decode"
    /\ stages' = Push(r, "decode")
    /\ reads' = [reads EXCEPT ![r] = @ \cup {f.writer : f \in FilesAt(RawPath(r))}]
    /\ Raise(r, Exc("LibRawError", "decode failed"))
    /\ UNCHANGED <<get_status, req, tmpdir, dirs, files, file_size, written, shorts, nGet,
                   nPost, img, new_size, storage_id, upload_res, response>>

\* The scale computation, img.resize and img_resized.save(jpeg_path, ...);
\* ok: whether the save succeeds.
ResizeEncode(r, ok) ==
    /\ pc[r] = "resize"
    /\ stages' = Push(r, "encode")
    /\ LET target == Target(req[r].endpoint)
       IN  new_size' = [new_size EXCEPT
                          ![r] = NewSize(img[r][1], img[r][2], target[1], target[2])]
    /\ IF ok
       THEN /\ files' = WriteFile(JpegPath(r), r)
            /\ pc' = [pc EXCEPT ![r] = "upload"]
            /\ UNCHANGED exc
       ELSE Raise(r, Exc("OSError", "encoder error")) /\ UNCHANGED files
    /\ UNCHANGED <<get_status, req, tmpdir, dirs, file_size, written, shorts, nGet, nPost,
                   img, storage_id, upload_res, reads, response>>

\* os.path.getsize(jpeg_path) and upload_to_convex(jpeg_path, upload_url):
\* the POST of the file, the status check, the storageId check.
Upload(r, u, jsonError) ==
    /\ pc[r] = "upload"
    /\ reads' = [reads EXCEPT ![r] = @ \cup {f.writer : f \in FilesAt(JpegPath(r))}]
    /\ IF FilesAt(JpegPath(r)) = {}
       THEN /\ Raise(r, Exc("FileNotFoundError", "no such file"))
            /\ UNCHANGED <<nPost, stages, upload_res, storage_id>>
       ELSE /\ nPost' = [nPost EXCEPT ![r] = @ + 1]
            /\ stages' = Push(r, "upload")
            /\ IF ~u.answered
               THEN /\ Raise(r, Exc("ConnectionError", "connection failed"))
                    /\ UNCHANGED <<upload_res, storage_id>>
               ELSE /\ upload_res' = [upload_res EXCEPT ![r] = u.res]
                    /\ IF UploadRejected(u.res.status)
                       THEN /\ Raise(r, UploadFailedExc(u.res.status, u.res.text))
                            /\ UNCHANGED storage_id
                       ELSE IF u.res.body = "not_json"
                       THEN /\ Raise(r, Exc(jsonError, "invalid JSON"))
                            /\ UNCHANGED storage_id
                       ELSE IF u.res.body # "object"
                       THEN /\ Raise(r, Exc("AttributeError", "no attribute 'get'"))
                            /\ UNCHANGED storage_id
                       ELSE IF Falsy(u.res.storageId)
                       THEN /\ Raise(r, Exc("Exception", "No storageId returned by Convex"))
                            /\ UNCHANGED storage_id
                       ELSE /\ storage_id' = [storage_id EXCEPT ![r] = u.res.storageId]
                            /\ pc' = [pc EXCEPT ![r] = "cleanup"]
                            /\ UNCHANGED exc
    /\ UNCHANGED <<get_status, req, tmpdir, dirs, files, file_size, written, shorts, nGet,
                   img, new_size, response>>

\* Leaving the with block, by return or by exception: the temporary
\* directory and all it holds are removed.
Cleanup(r) ==
    /\ pc[r] = "cleanup"
    /\ dirs' = [dirs EXCEPT ![tmpdir[r]] = 0]
    /\ files' = {f \in files : f.dir # tmpdir[r]}
    /\ tmpdir' = [tmpdir EXCEPT ![r] = 0]
    /\ pc' = [pc EXCEPT ![r] = "respond"]
    /\ UNCHANGED <<get_status, req, file_size, written, shorts, nGet, nPost, exc, img,
                   new_size, storage_id, upload_res, reads, stages, response>>

\* The response: the success body the return built, or the body of the
\* except clause that matches the exception.
Respond(r) ==
    /\ pc[r] = "respond"
    /\ response' = [response EXCEPT
                      ![r] = IF exc[r] = NoExc
                             THEN SuccessResponse(req[r].endpoint, storage_id[r],
                                                  new_size[r])
                             ELSE ErrorResponse(exc[r])]
    /\ pc' = [pc EXCEPT ![r] = "done"]
    /\ UNCHANGED <<get_status, req, tmpdir, dirs, files, file_size, written, shorts, nGet,
                   nPost, exc, img, new_size, storage_id, upload_res, reads,
                   stages>>

RequestStep(r, env) ==
    \/ \E endpoint \in Endpoints, body \in env.bodies : Receive(r, endpoint, body)
    \/ Validate(r)
    \/ \E d \in env.names : MakeTmpDir(r, d)
    \/ \E g \in env.gets : DownloadGet(r, g)
    \/ \E len \in ChunkLens : DownloadChunk(r, len, env.limit)
    \/ DownloadEnd(r)
    \/ DownloadBroken(r)
    \/ \E size \in env.dims : Decode(r, size)
    \/ DecodeFails(r)
    \/ \E ok \in BOOLEAN : ResizeEncode(r, ok)
    \/ \E u \in env.uploads, jsonError \in JsonErrorClasses : Upload(r, u, jsonError)
    \/ Cleanup(r)
    \/ Respond(r)

\* One request, against the full environment.
Next == RequestStep(1, Env)

Spec == Init /\ [][Next]_vars

\* Requests handled concurrently, one thread each.
NextConc == \E r \in Requests : RequestStep(r, ConcEnv)

SpecConc == Init /\ [][NextConc]_vars

(***************************************************************************)
(* Properties.                                                             *)
(***************************************************************************)
InTmpDir == {"get", "stream", "decode", "resize", "upload", "cleanup"}

Pipeline == <<"download", "decode", "encode", "upload">>

IsPrefix(s, t) == Len(s) <= Len(t) /\ SubSeq(t, 1, Len(s)) = s

\* The body has no usable rawFileUrl or no usable uploadUrl.
LacksField(body) ==
    \/ body.kind # "object"
    \/ body.rawFileUrl \in {NoneVal, ""}
    \/ body.uploadUrl \in {NoneVal, ""}

\* C1: a request whose body lacks rawFileUrl or uploadUrl (absent or empty)
\* is answered 400 with a JSON body that has an error field, and neither a
\* download GET nor an upload POST is issued for it.
C1_MissingFieldIs400 ==
    \A r \in Requests :
        pc[r] = "done" /\ LacksField(req[r].body) =>
            /\ response[r].status = 400
            /\ response[r].json
            /\ response[r].error # ""
            /\ nGet[r] = 0
            /\ nPost[r] = 0

\* C2: once a request that made its temporary directory has completed, by
\* success or by a failure at any stage, the directory and the files the
\* request wrote no longer exist.
C2_TempFilesRemoved ==
    \A r \in Requests :
        pc[r] \in {"respond", "done"} =>
            /\ \A d \in DirNames : dirs[d] # r
            /\ \A f \in files : f.writer # r

C2_Witness ==
    \E r \in Requests :
        /\ pc[r] = "done"
        /\ response[r].status = 500
        /\ stages[r] = Pipeline

\* C3: once the bytes received exceed 100 MiB the download is aborted with
\* an error: no chunk is written after that, the bytes written stay within
\* one chunk of the cap, and the request never goes on to decode.
C3_Aborted ==
    \A r \in Requests :
        /\ written[r] <= MaxFileSize + chunk_size
        /\ file_size[r] > MaxFileSize =>
              /\ pc[r] \in {"cleanup", "respond", "done"}
              /\ exc[r] = Exc("Exception", "File too large (>100MB)")
              /\ stages[r] = <<"download">>

C3_NoWriteAfter ==
    \A r \in Requests :
        file_size[r] > MaxFileSize =>
            /\ written'[r] = written[r]
            /\ stages'[r] = stages[r]
            /\ pc'[r] \notin {"stream", "decode", "resize", "upload"}

C3_DownloadCap == [](C3_Aborted) /\ [][C3_NoWriteAfter]_vars

C3_Witness ==
    \E r \in Requests :
        /\ pc[r] = "done"
        /\ file_size[r] > MaxFileSize
        /\ written[r] = MaxFileSize + ShortChunk
        /\ response[r].status = 500

\* C4: when the upload endpoint answers with a status other than 200, the
\* response is 500, its details carry the upstream status and text, and no
\* success result is returned.
C4_UploadRejected ==
    \A r \in Requests :
        pc[r] = "done" /\ upload_res[r].status \notin {0, 200} =>
            /\ response[r].status = 500
            /\ response[r].details.status = upload_res[r].status
            /\ response[r].details.text = upload_res[r].text
            /\ ~response[r].success
            /\ response[r].storageId = ""

C4_Witness ==
    \E r \in Requests :
        /\ pc[r] = "done"
        /\ upload_res[r].status = 201
        /\ response[r].details.status = 201

\* C5: when the upload endpoint answers 200 with no storageId (absent or
\* empty) the response is 500 and not a success; every success response
\* carries the non-empty storageId of a 200 upload answer.
C5_StorageIdRequired ==
    \A r \in Requests :
        pc[r] = "done" =>
            /\ upload_res[r].status = 200 /\ upload_res[r].storageId \in {NoneVal, ""} =>
                  response[r].status = 500 /\ ~response[r].success
            /\ response[r].success =>
                  /\ response[r].status = 200
                  /\ upload_res[r].status = 200
                  /\ response[r].storageId = upload_res[r].storageId
                  /\ response[r].storageId \notin {NoneVal, ""}

C5_Witness ==
    \E r \in Requests :
        /\ pc[r] = "done"
        /\ upload_res[r].status = 200
        /\ upload_res[r].body = "object"
        /\ upload_res[r].storageId = ""
        /\ response[r].status = 500

\* |n - a / b| < 1 and |n - a / b| <= 1, for integers n, a and b > 0.
Abs(x) == IF x < 0 THEN 0 - x ELSE x

WithinLessThanOne(n, a, b) == Abs(n * b - a) < b

WithinOne(n, a, b) == Abs(n * b - a) <= b

\* The size the uniform scale min(tw / w, th / h) gives exactly, as two
\* fractions <<numerator, denominator>>.
ExactSize(w, h, tw, th) ==
    IF tw * h <= th * w
    THEN [w |-> <<tw, 1>>, h |-> <<h * tw, w>>]
    ELSE [w |-> <<w * th, h>>, h |-> <<th, 1>>]

\* A successful conversion of an image no smaller than the target box.
Converted(r) ==
    /\ pc[r] = "done"
    /\ response[r].success
    /\ img[r][1] >= Target(req[r].endpoint)[1]
    /\ img[r][2] >= Target(req[r].endpoint)[2]

SizeReported(r) ==
    LET target == Target(req[r].endpoint)
    IN  /\ response[r].dimensions = DimString(new_size[r])
        /\ new_size[r][1] <= target[1]
        /\ new_size[r][2] <= target[2]
        /\ img[r] = <<4000, 3000>> =>
              response[r].dimensions =
                  (IF req[r].endpoint = "thumbnail" THEN "400x300" ELSE "1920x1440")

\* C6, as claimed: for a successful conversion of a W x H image with W >= TW
\* and H >= TH, the reported dimensions are those of the resized image, fit
\* the target box, and each differs by less than 1 from the exactly scaled
\* value; 4000x3000 gives 400x300 and 1920x1440.
C6_LessThanOne ==
    \A r \in Requests :
        Converted(r) =>
            LET target == Target(req[r].endpoint)
                exact  == ExactSize(img[r][1], img[r][2], target[1], target[2])
            IN  /\ SizeReported(r)
                /\ WithinLessThanOne(new_size[r][1], exact.w[1], exact.w[2])
                /\ WithinLessThanOne(new_size[r][2], exact.h[1], exact.h[2])

\* C6, amended: the same, with each reported dimension within 1 (inclusive)
\* of the exactly scaled value.
C6_WithinOne ==
    \A r \in Requests :
        Converted(r) =>
            LET target == Target(req[r].endpoint)
                exact  == ExactSize(img[r][1], img[r][2], target[1], target[2])
            IN  /\ SizeReported(r)
                /\ WithinOne(new_size[r][1], exact.w[1], exact.w[2])
                /\ WithinOne(new_size[r][2], exact.h[1], exact.h[2])

C6_Witness ==
    \E r \in Requests :
        /\ Converted(r)
        /\ req[r].endpoint = "thumbnail"
        /\ img[r] = <<539, 300>>
        /\ response[r].dimensions = "399x222"

\* C7: a request runs download, decode, resize/encode, upload in that
\* order, each at most once (at most one GET, at most one POST); a failure
\* at a stage ends the request with an error response and no later stage
\* is attempted; nothing is retried.
C7_InOrder ==
    \A r \in Requests :
        /\ nGet[r] <= 1
        /\ nPost[r] <= 1
        /\ IsPrefix(stages[r], Pipeline)
        /\ exc[r] # NoExc => pc[r] \in {"cleanup", "respond", "done"}
        /\ pc[r] = "done" /\ exc[r] # NoExc =>
              response[r].status = 500 /\ ~response[r].success

C7_NoLaterStage ==
    \A r \in Requests :
        exc[r] # NoExc =>
            /\ stages'[r] = stages[r]
            /\ nGet'[r] = nGet[r]
            /\ nPost'[r] = nPost[r]
            /\ exc'[r] = exc[r]

C7_Pipeline == [](C7_InOrder) /\ [][C7_NoLaterStage]_vars

C7_Witness ==
    \E r \in Requests :
        /\ pc[r] = "done"
        /\ stages[r] = <<"download", "decode">>
        /\ nGet[r] = 1
        /\ nPost[r] = 0
        /\ response[r].status = 500

\* C8: every error in a conversion request is caught by the handler and
\* answered with JSON: a failure other than the missing-field error gives a
\* 500 whose JSON body has error and details, and none leaves the handler
\* unhandled.
C8_AllErrorsCaught ==
    \A r \in Requests :
        pc[r] = "done" =>
            /\ response[r].json
            /\ exc[r] # NoExc =>
                  /\ response[r].status = 500
                  /\ response[r].error # ""
                  /\ response[r].details.msg # ""

\* C9: with requests handled concurrently, each works in a temporary
\* directory of its own: no two share one, every file lies in the directory
\* of the request that wrote it, a request reads only files it wrote, and
\* the files of a request in flight are not removed by another's cleanup.
C9_Isolated ==
    /\ \A r1, r2 \in Requests :
          r1 # r2 /\ tmpdir[r1] # 0 => tmpdir[r1] # tmpdir[r2]
    /\ \A f \in files : tmpdir[f.writer] = f.dir
    /\ \A r \in Requests :
          /\ reads[r] \subseteq {r}
          /\ pc[r] \in InTmpDir => dirs[tmpdir[r]] = r
          /\ pc[r] \in {"stream", "decode", "resize", "upload"} =>
                [dir |-> tmpdir[r], name |-> RawName, writer |-> r] \in files
          /\ pc[r] = "upload" =>
                [dir |-> tmpdir[r], name |-> JpegName(req[r].endpoint), writer |-> r]
                    \in files

C9_Witness ==
    \E r1, r2 \in Requests :
        /\ r1 # r2
        /\ pc[r1] = "upload"
        /\ pc[r2] = "respond"
        /\ stages[r2] = Pipeline
        /\ req[r1].endpoint = req[r2].endpoint

\* How a request that ended in a 500 failed.  The request failed in the
\* download, within the cap, after an answer that was not 2xx.
BadDownloadStatus(r) ==
    /\ stages[r] = <<"download">>
    /\ get_status[r] # 0
    /\ get_status[r] \notin 200..299
    /\ file_size[r] <= MaxFileSize

\* The download GET was answered 4xx or 5xx.
ErrorDownloadStatus(r) == nGet[r] = 1 /\ get_status[r] \in 400..599

DownloadTransportFailure(r) ==
    \/ nGet[r] = 1 /\ get_status[r] = 0
    \/ /\ stages[r] = <<"download">>
       /\ get_status[r] \in 200..399
       /\ file_size[r] <= MaxFileSize

UploadTransportFailure(r) == nPost[r] = 1 /\ upload_res[r].status = 0

BadUploadStatus(r) ==
    nPost[r] = 1 /\ upload_res[r].status # 0 /\ upload_res[r].status \notin 200..299

Oversized(r) == file_size[r] > MaxFileSize

DecodeOrEncodeFailure(r) ==
    stages[r] \in {<<"download", "decode">>, <<"download", "decode", "encode">>}

Failed500(r) == pc[r] = "done" /\ response[r].status = 500 /\ response[r].json

\* C10, as claimed: in a 500 response a non-2xx answer or a transport
\* failure during download or upload carries the network-error label; an
\* oversized download or a decode/encode failure carries the generic label.
C10_LabelsAsClaimed ==
    \A r \in Requests :
        Failed500(r) =>
            /\ (\/ BadDownloadStatus(r)
                \/ DownloadTransportFailure(r)
                \/ BadUploadStatus(r)
                \/ UploadTransportFailure(r)) => response[r].error = NetworkLabel
            /\ Oversized(r) \/ DecodeOrEncodeFailure(r) =>
                  response[r].error = GenericLabel

\* C10, amended: the network-error label is carried by a 4xx/5xx answer to
\* the download GET and by a transport failure during download or upload;
\* the generic label by an upload answer other than 200, an oversized
\* download and a decode/encode failure.
C10_Labels ==
    \A r \in Requests :
        Failed500(r) =>
            /\ (\/ ErrorDownloadStatus(r)
                \/ DownloadTransportFailure(r)
                \/ UploadTransportFailure(r)) => response[r].error = NetworkLabel
            /\ (\/ nPost[r] = 1 /\ upload_res[r].status \notin {0, 200}
                \/ Oversized(r)
                \/ DecodeOrEncodeFailure(r)) => response[r].error = GenericLabel

C10_Witness ==
    \E r \in Requests :
        /\ Failed500(r)
        /\ upload_res[r].status = 500
        /\ response[r].error = GenericLabel
====
